---- MODULE Spec2Model ----
(***************************************************************************)
(* Model of synpick's model acquisition and launch subsystem:              *)
(*   - the timeout-guarded auxiliary commands of the launcher              *)
(*     (getClaudeVersion, checkClaudeInstallation) and of the              *)
(*     ClaudeCodeManager (spawnCommand),                                   *)
(*   - the main launch (launchClaudeCode, createClaudeEnvironment,         *)
(*     normalizeModelId),                                                  *)
(*   - the cache-first model fetch (ModelManager.fetchModels,              *)
(*     fetchFromApi, ModelCache).                                          *)
(*   - model-id normalization on its own, the ModelCache operations called *)
(*     directly, and the TierSelector dialog.                              *)
(* Each subsystem has its own specification over the shared variables:     *)
(* SpecAux (SpecAuxFair with the timer callbacks eventually run),          *)
(* SpecLaunch (SpecLaunchFair with the child's first signal delivered),    *)
(* SpecFetch, SpecNorm, SpecCache and SpecSelector.                        *)
(***************************************************************************)
EXTENDS Integers, Sequences, FiniteSets, TLC

VARIABLES
  \* ---- auxiliary command (one run) ----
  auxKind,        \* which command runs: "version", "probe", "spawnCommand"
  auxPc,          \* "idle" before the call, "running" once handlers are registered
  auxPromise,     \* state of the returned promise: "pending" | "resolved"
  auxResult,      \* value the promise resolved with
  auxResolved,    \* the handler-local `resolved` flag
  auxTimer,       \* timeout timer: "none" | "armed" | "fired" | "cleared"
  auxClearCalls,  \* number of clearTimeout invocations
  auxKills,       \* signals sent to the child with child.kill, in order
  auxOutput,      \* stdout chunks captured so far, in order
  auxEvents,      \* child events and timer expiry seen so far, in order
  auxSettledBy,   \* the event whose handler settled the promise
  \* ---- main launch (one launch) ----
  launchPc,       \* "idle" | "spawning" | "returned"
  launchPromise,  \* "none" | "pending" | "resolved" | "rejected"
  launchResult,   \* LaunchResult the promise resolved with
  launchOpts,     \* the LaunchOptions of the call
  launchParentEnv, \* process.env at the time of the call
  launchComposed, \* what createClaudeEnvironment returned
  launchEnv,      \* environment handed to spawn
  launchEvents,   \* child events emitted so far, in order
  launchSettledBy, \* what settled the promise
  \* ---- model fetch ----
  now,            \* wall clock
  apiKey,         \* the configured API key
  cacheFile,      \* the snapshot file: kind, content, modification time
  fetchPc,        \* "idle" | "load" | "api" | "save" | "done"
  fetchForce,     \* forceRefresh of the current call
  fetchCall,      \* bookkeeping of the current fetchModels call
  fetchOutcome,   \* "none" | "returned" | "threw"
  fetchResult,    \* the records returned
  fetchError,     \* the message of the ApiError thrown
  prevRefresh,    \* records a directly preceding forced fetch saved, if any
  \* ---- model-id normalization (one id) ----
  normX,          \* the model id handed to normalizeModelId
  normOut,        \* results of normalizing it once, twice, ... in order
  normEnv,        \* createClaudeEnvironment for a launch of that model, once composed
  \* ---- ModelCache operations called directly ----
  cacheOp,        \* the last operation on the cache and what it returned
  \* ---- TierSelector (one dialog) ----
  selModels,      \* ids of the models prop, in order
  activeTier,     \* the tier the cursor is on
  selectedIndex,  \* the highlighted row of the model list
  selections,     \* the model chosen per tier, '' when none
  confirmMode,    \* Enter was pressed once
  selStatus,      \* "open" | "selected" (onSelect called) | "cancelled" (onCancel)
  selResult       \* the TierSelection passed to onSelect

auxVars == <<auxKind, auxPc, auxPromise, auxResult, auxResolved, auxTimer,
             auxClearCalls, auxKills, auxOutput, auxEvents, auxSettledBy>>
launchVars == <<launchPc, launchPromise, launchResult, launchOpts,
                launchParentEnv, launchComposed, launchEnv,
                launchEvents, launchSettledBy>>
fetchVars == <<now, apiKey, cacheFile, fetchPc, fetchForce, fetchCall,
               fetchOutcome, fetchResult, fetchError, prevRefresh>>
normVars == <<normX, normOut, normEnv>>
selVars == <<selModels, activeTier, selectedIndex, selections, confirmMode,
             selStatus, selResult>>
extraVars == <<normVars, cacheOp, selVars>>

\* ------------------------------------------------------------------------
\* Bounds of the model
\* ------------------------------------------------------------------------
\* stdout chunks delivered to one auxiliary command
MaxChunks == 1
\* raw entries in one catalog response
MaxRecords == 2
\* last instant of the wall clock
MaxTime == 4
\* cache duration (cacheDurationHours), in clock ticks
Ttl == 2

\* ------------------------------------------------------------------------
\* Auxiliary commands
\* ------------------------------------------------------------------------
AuxKinds == {"version", "probe", "spawnCommand"}

\* exit codes a close event carries ("null": the child was ended by a signal)
CloseCodes == {"0", "1", "null"}

\* stdout chunks the child may write
Chunks == {"claude 2.0.76", "n/a"}

NoResult == [kind |-> "none"]
NullResult == [kind |-> "null"]

\* output.trim().match(/(\d+\.\d+\.\d+)/)?.[1] ?? null, on the outputs the
\* model's child can produce (the only version it prints is 2.0.76)
RECURSIVE Join(_)
Join(chunks) ==
  IF chunks = <<>> THEN "" ELSE Head(chunks) \o Join(Tail(chunks))

MatchVersion(chunks) ==
  LET output == Join(chunks) IN
  IF \E i \in 1..(Len(output) - 5) : SubSeq(output, i, i + 5) = "2.0.76"
  THEN [kind |-> "version", value |-> "2.0.76"]
  ELSE NullResult

BoolResult(b) == [kind |-> "bool", value |-> b]

CmdResult(code, chunks) ==
  [kind |-> "cmd", success |-> (code = "0"), code |-> code, stdout |-> Join(chunks)]

\* resolve(v) of a promise: the first call settles it, later calls do nothing
AuxResolve(v, by) ==
  IF auxPromise = "pending"
  THEN /\ auxPromise' = "resolved"
       /\ auxResult' = v
       /\ auxSettledBy' = by
  ELSE UNCHANGED <<auxPromise, auxResult, auxSettledBy>>

Range(seq) == {seq[i] : i \in 1..Len(seq)}

\* the child emits event e (each event at most once per child)
Emit(e) ==
  /\ auxPc = "running"
  /\ e \notin Range(auxEvents)
  /\ auxEvents' = Append(auxEvents, e)

\* the timer armed by setTimeout expires and its callback runs
TimerFires ==
  /\ auxPc = "running"
  /\ auxTimer = "armed"
  /\ auxTimer' = "fired"
  /\ auxEvents' = Append(auxEvents, "timeout")

\* the call itself: spawn the child, register the handlers, arm the timer
AuxStart(kind) ==
  /\ auxPc = "idle"
  /\ auxPc' = "running"
  /\ auxKind' = kind
  /\ auxPromise' = "pending"
  /\ auxResolved' = FALSE
  /\ auxTimer' = "armed"
  /\ auxOutput' = <<>>
  /\ UNCHANGED <<auxResult, auxClearCalls, auxKills, auxEvents, auxSettledBy>>
  /\ UNCHANGED <<launchVars, fetchVars, extraVars>>

\* ---- ClaudeLauncher.getClaudeVersion ----
VersionOnData(chunk) ==
  /\ auxPc = "running" /\ auxKind = "version"
  /\ "close" \notin Range(auxEvents)
  /\ Len(auxOutput) < MaxChunks
  /\ auxOutput' = Append(auxOutput, chunk)
  /\ UNCHANGED <<auxKind, auxPc, auxPromise, auxResult, auxResolved, auxTimer,
                 auxClearCalls, auxKills, auxEvents, auxSettledBy>>
  /\ UNCHANGED <<launchVars, fetchVars, extraVars>>

VersionOnClose(code) ==
  /\ auxKind = "version"
  /\ Emit("close")
  /\ IF ~auxResolved /\ code = "0"
     THEN /\ auxResolved' = TRUE
          /\ AuxResolve(MatchVersion(auxOutput), "close")
     ELSE IF ~auxResolved
     THEN /\ auxResolved' = TRUE
          /\ AuxResolve(NullResult, "close")
     ELSE UNCHANGED <<auxResolved, auxPromise, auxResult, auxSettledBy>>
  /\ UNCHANGED <<auxKind, auxPc, auxTimer, auxClearCalls, auxKills, auxOutput>>
  /\ UNCHANGED <<launchVars, fetchVars, extraVars>>

VersionOnError ==
  /\ auxKind = "version"
  /\ Emit("error")
  /\ IF ~auxResolved
     THEN /\ auxResolved' = TRUE
          /\ AuxResolve(NullResult, "error")
     ELSE UNCHANGED <<auxResolved, auxPromise, auxResult, auxSettledBy>>
  /\ UNCHANGED <<auxKind, auxPc, auxTimer, auxClearCalls, auxKills, auxOutput>>
  /\ UNCHANGED <<launchVars, fetchVars, extraVars>>

VersionOnTimeout_NoGuard ==
  /\ auxKind = "version"
  /\ TimerFires
  /\ auxResolved' = TRUE
  /\ auxKills' = Append(auxKills, "SIGTERM")
  /\ AuxResolve(NullResult, "timeout")
  /\ UNCHANGED <<auxKind, auxPc, auxClearCalls, auxOutput>>
  /\ UNCHANGED <<launchVars, fetchVars, extraVars>>

\* a timeout callback of getClaudeVersion that kills the child and leaves the
\* promise pending
VersionOnTimeout_NoResolve ==
  /\ auxKind = "version"
  /\ TimerFires
  /\ IF ~auxResolved
     THEN /\ auxResolved' = TRUE
          /\ auxKills' = Append(auxKills, "SIGTERM")
     ELSE UNCHANGED <<auxResolved, auxKills>>
  /\ UNCHANGED <<auxPromise, auxResult, auxSettledBy>>
  /\ UNCHANGED <<auxKind, auxPc, auxClearCalls, auxOutput>>
  /\ UNCHANGED <<launchVars, fetchVars, extraVars>>

\* child.kill() without an argument sends the default signal, SIGTERM
VersionOnTimeout ==
  /\ auxKind = "version"
  /\ TimerFires
  /\ IF ~auxResolved
     THEN /\ auxResolved' = TRUE
          /\ auxKills' = Append(auxKills, "SIGTERM")
          /\ AuxResolve(NullResult, "timeout")
     ELSE UNCHANGED <<auxResolved, auxKills, auxPromise, auxResult, auxSettledBy>>
  /\ UNCHANGED <<auxKind, auxPc, auxClearCalls, auxOutput>>
  /\ UNCHANGED <<launchVars, fetchVars, extraVars>>

\* ---- ClaudeLauncher.checkClaudeInstallation ----
ProbeOnSpawn ==
  /\ auxKind = "probe"
  /\ Emit("spawn")
  /\ AuxResolve(BoolResult(TRUE), "spawn")
  /\ UNCHANGED <<auxKind, auxPc, auxResolved, auxTimer, auxClearCalls, auxKills,
                 auxOutput>>
  /\ UNCHANGED <<launchVars, fetchVars, extraVars>>

ProbeOnError ==
  /\ auxKind = "probe"
  /\ Emit("error")
  /\ AuxResolve(BoolResult(FALSE), "error")
  /\ UNCHANGED <<auxKind, auxPc, auxResolved, auxTimer, auxClearCalls, auxKills,
                 auxOutput>>
  /\ UNCHANGED <<launchVars, fetchVars, extraVars>>

ProbeOnTimeout ==
  /\ auxKind = "probe"
  /\ TimerFires
  /\ AuxResolve(BoolResult(FALSE), "timeout")
  /\ UNCHANGED <<auxKind, auxPc, auxResolved, auxClearCalls, auxKills, auxOutput>>
  /\ UNCHANGED <<launchVars, fetchVars, extraVars>>

\* ---- ClaudeCodeManager.spawnCommand ----
\* doResolve(result): the single resolution function of spawnCommand, used by
\* the close and the error handler: guarded by `resolved`, cancels the timer
SpawnCommandDoResolve(v, by) ==
  IF ~auxResolved
  THEN /\ auxResolved' = TRUE
       /\ auxTimer' = (IF auxTimer = "armed" THEN "cleared" ELSE auxTimer)
       /\ auxClearCalls' = auxClearCalls + 1
       /\ AuxResolve(v, by)
  ELSE UNCHANGED <<auxResolved, auxTimer, auxClearCalls, auxPromise, auxResult,
                   auxSettledBy>>

SpawnCommandOnData(chunk) ==
  /\ auxPc = "running" /\ auxKind = "spawnCommand"
  /\ "close" \notin Range(auxEvents)
  /\ Len(auxOutput) < MaxChunks
  /\ auxOutput' = Append(auxOutput, chunk)
  /\ UNCHANGED <<auxKind, auxPc, auxPromise, auxResult, auxResolved, auxTimer,
                 auxClearCalls, auxKills, auxEvents, auxSettledBy>>
  /\ UNCHANGED <<launchVars, fetchVars, extraVars>>

SpawnCommandOnClose(code) ==
  /\ auxKind = "spawnCommand"
  /\ Emit("close")
  /\ SpawnCommandDoResolve(CmdResult(code, auxOutput), "close")
  /\ UNCHANGED <<auxKind, auxPc, auxKills, auxOutput>>
  /\ UNCHANGED <<launchVars, fetchVars, extraVars>>

SpawnCommandOnError ==
  /\ auxKind = "spawnCommand"
  /\ Emit("error")
  /\ SpawnCommandDoResolve(CmdResult("-1", auxOutput), "error")
  /\ UNCHANGED <<auxKind, auxPc, auxKills, auxOutput>>
  /\ UNCHANGED <<launchVars, fetchVars, extraVars>>

SpawnCommandOnTimeout ==
  /\ auxKind = "spawnCommand"
  /\ TimerFires
  /\ IF ~auxResolved
     THEN /\ auxResolved' = TRUE
          /\ auxKills' = Append(auxKills, "SIGKILL")
          /\ AuxResolve(CmdResult("null", auxOutput), "timeout")
     ELSE UNCHANGED <<auxResolved, auxKills, auxPromise, auxResult, auxSettledBy>>
  /\ UNCHANGED <<auxKind, auxPc, auxClearCalls, auxOutput>>
  /\ UNCHANGED <<launchVars, fetchVars, extraVars>>

\* a child event no handler is registered for: 'spawn' of the version query and
\* of spawnCommand, 'close' of the installation probe
UnhandledEvent(e) ==
  /\ \/ auxKind \in {"version", "spawnCommand"} /\ e = "spawn"
     \/ auxKind = "probe" /\ e = "close"
  /\ Emit(e)
  /\ UNCHANGED <<auxKind, auxPc, auxPromise, auxResult, auxResolved, auxTimer,
                 auxClearCalls, auxKills, auxOutput, auxSettledBy>>
  /\ UNCHANGED <<launchVars, fetchVars, extraVars>>

\* ------------------------------------------------------------------------
\* Main launch
\* ------------------------------------------------------------------------
StartsWith(s, prefix) ==
  Len(s) >= Len(prefix) /\ SubSeq(s, 1, Len(prefix)) = prefix

\* a prefix list that knows Hugging Face only
knownPrefixes_HfOnly == <<"hf:">>

knownPrefixes == <<"hf:", "openai:", "anthropic:", "claude:", "google:", "meta:">>

\* normalizeModelId without its guard for a missing id
normalizeModelId_AlwaysPrefix(modelId) ==
  IF \E i \in 1..Len(knownPrefixes) : StartsWith(modelId, knownPrefixes[i])
  THEN modelId
  ELSE "hf:" \o modelId

\* normalizeModelId that prefixes every id it is given
normalizeModelId_Prepend(modelId) ==
  IF modelId = "" THEN "" ELSE "hf:" \o modelId

\* normalizeModelId; undefined and the empty string, both falsy and used only
\* through `||` and `if`, are the empty string here
normalizeModelId(modelId) ==
  IF modelId = "" THEN ""
  ELSE IF \E i \in 1..Len(knownPrefixes) : StartsWith(modelId, knownPrefixes[i])
  THEN modelId
  ELSE "hf:" \o modelId

\* `||` that never takes its right operand
OrElse_NoFallback(a, b) == a

\* `||` that always takes its right operand
OrElse_Second(a, b) == b

\* `||` that yields the empty string
OrElse_Empty(a, b) == ""

\* a || b on strings
OrElse(a, b) == IF a # "" THEN a ELSE b

\* a spread in which the earlier source keeps its keys
Spread_LeftWins(a, b) ==
  [k \in (DOMAIN a) \cup (DOMAIN b) |-> IF k \in DOMAIN a THEN a[k] ELSE b[k]]

\* { ...a, ...b } on key/value maps
Spread(a, b) ==
  [k \in (DOMAIN a) \cup (DOMAIN b) |-> IF k \in DOMAIN b THEN b[k] ELSE a[k]]

EmptyMap == [k \in {} |-> ""]

DEFAULT_MAX_TOKEN_SIZE == 128000

createClaudeEnvironment(options) ==
  LET tiers == options.tierModels
      defaultModel == OrElse(normalizeModelId(OrElse(tiers.default, options.model)), "")
      opusModel == OrElse(normalizeModelId(tiers.opus), defaultModel)
      sonnetModel == OrElse(normalizeModelId(tiers.sonnet), defaultModel)
      haikuModel == OrElse(normalizeModelId(tiers.haiku), defaultModel)
      subagentModel == OrElse(normalizeModelId(tiers.subagent), defaultModel)
      thinkingModel ==
        normalizeModelId(OrElse(tiers.thinking, OrElse(options.thinkingModel, "")))
      fixed ==
        [ANTHROPIC_BASE_URL |-> "https://api.synthetic.new/anthropic",
         ANTHROPIC_DEFAULT_OPUS_MODEL |-> opusModel,
         ANTHROPIC_DEFAULT_SONNET_MODEL |-> sonnetModel,
         ANTHROPIC_DEFAULT_HAIKU_MODEL |-> haikuModel,
         ANTHROPIC_DEFAULT_MODEL |-> defaultModel,
         CLAUDE_CODE_SUBAGENT_MODEL |-> subagentModel,
         CLAUDE_CODE_MAX_TOKEN_SIZE |->
           ToString(IF options.hasMaxTokenSize THEN options.maxTokenSize
                    ELSE DEFAULT_MAX_TOKEN_SIZE),
         CLAUDE_CODE_DISABLE_NONESSENTIAL_TRAFFIC |-> "1"]
      thinking ==
        IF thinkingModel # "" THEN [ANTHROPIC_THINKING_MODEL |-> thinkingModel]
        ELSE EmptyMap
      prompt ==
        IF options.systemPrompt # "" THEN [CLAUDE_SYSTEM_PROMPT |-> options.systemPrompt]
        ELSE EmptyMap
  IN Spread(Spread(fixed, thinking), prompt)

\* child_process.spawn validates its arguments before it starts the child and
\* throws synchronously on an empty file name
SpawnThrows(path) == path = ""

LaunchOk(pid) == [kind |-> "launch", success |-> TRUE, pid |-> pid]
LaunchFailed(msg) == [kind |-> "launch", success |-> FALSE, error |-> msg]

\* resolve(v) of the launch promise: the first call settles it
LaunchResolve(v, by) ==
  IF launchPromise = "pending"
  THEN /\ launchPromise' = "resolved"
       /\ launchResult' = v
       /\ launchSettledBy' = by
  ELSE UNCHANGED <<launchPromise, launchResult, launchSettledBy>>

\* launchClaudeCode up to its return; instancePath is this.claudePath, processEnv
\* the parent's environment. A null options object makes the environment
\* composition raise inside the try block; an exception of spawn is raised inside
\* the promise executor, outside of what the try block catches (the promise is
\* returned, not awaited), and rejects the promise
launchClaudeCode(options, instancePath, processEnv) ==
  /\ launchPc = "idle"
  /\ launchOpts' = options
  /\ launchParentEnv' = processEnv
  /\ launchEvents' = <<>>
  /\ IF ~options.defined
     THEN /\ launchPc' = "returned"
          /\ launchPromise' = "resolved"
          /\ launchResult' = LaunchFailed("TypeError")
          /\ launchSettledBy' = "catch"
          /\ launchComposed' = EmptyMap
          /\ launchEnv' = EmptyMap
     ELSE LET composed == createClaudeEnvironment(options)
              env == Spread(Spread(processEnv, composed), options.env)
              claudePath == OrElse(options.claudePath, instancePath)
          IN /\ launchComposed' = composed
             /\ launchEnv' = env
             /\ IF SpawnThrows(claudePath)
                THEN /\ launchPc' = "returned"
                     /\ launchPromise' = "rejected"
                     /\ launchResult' = NoResult
                     /\ launchSettledBy' = "executor"
                ELSE /\ launchPc' = "spawning"
                     /\ launchPromise' = "pending"
                     /\ launchResult' = NoResult
                     /\ launchSettledBy' = "none"
  /\ UNCHANGED <<auxVars, fetchVars, extraVars>>

LaunchEmit(e) ==
  /\ launchPc = "spawning"
  /\ e \notin Range(launchEvents)
  /\ launchEvents' = Append(launchEvents, e)

\* a 'spawn' handler that reports nothing
LaunchOnSpawn_NoResolve ==
  /\ LaunchEmit("spawn")
  /\ UNCHANGED <<launchPromise, launchResult, launchSettledBy>>
  /\ UNCHANGED <<launchPc, launchOpts, launchParentEnv, launchComposed, launchEnv>>
  /\ UNCHANGED <<auxVars, fetchVars, extraVars>>

LaunchOnSpawn ==
  /\ LaunchEmit("spawn")
  /\ LaunchResolve(LaunchOk("1234"), "spawn")
  /\ UNCHANGED <<launchPc, launchOpts, launchParentEnv, launchComposed, launchEnv>>
  /\ UNCHANGED <<auxVars, fetchVars, extraVars>>

LaunchOnError_Overwrite(msg) ==
  /\ LaunchEmit("error")
  /\ launchPromise' = "resolved"
  /\ launchResult' = LaunchFailed(msg)
  /\ launchSettledBy' = "error"
  /\ UNCHANGED <<launchPc, launchOpts, launchParentEnv, launchComposed, launchEnv>>
  /\ UNCHANGED <<auxVars, fetchVars, extraVars>>

LaunchOnError(msg) ==
  /\ LaunchEmit("error")
  /\ LaunchResolve(LaunchFailed(msg), "error")
  /\ UNCHANGED <<launchPc, launchOpts, launchParentEnv, launchComposed, launchEnv>>
  /\ UNCHANGED <<auxVars, fetchVars, extraVars>>

\* ---- inputs of the launch ----
TierChoices ==
  [default : {"", "hf:d"}, opus : {"", "o"}, sonnet : {"", "openai:s"},
   haiku : {"", "h"}, subagent : {"", "claude:a"}, thinking : {"", "t"}]

EnvOverrides ==
  {EmptyMap,
   [ANTHROPIC_BASE_URL |-> "http://localhost:8080"],
   [ANTHROPIC_DEFAULT_OPUS_MODEL |-> "override", ANTHROPIC_AUTH_TOKEN |-> "key"]}

ParentEnvs ==
  {[PATH |-> "/usr/bin"],
   [PATH |-> "/usr/bin", ANTHROPIC_BASE_URL |-> "https://parent",
    ANTHROPIC_THINKING_MODEL |-> "hf:parent"]}

NullOptions == [defined |-> FALSE]

LaunchOptionsSet ==
  [defined : {TRUE},
   model : {"", "m1", "openai:gpt-4"},
   claudePath : {"", "/opt/claude"},
   env : EnvOverrides,
   tierModels : TierChoices,
   hasMaxTokenSize : {FALSE},
   maxTokenSize : {0},
   thinkingModel : {"", "tm"},
   systemPrompt : {""}]
  \cup
  [defined : {TRUE}, model : {"m1"}, claudePath : {""}, env : {EmptyMap},
   tierModels : {[default |-> "", opus |-> "", sonnet |-> "", haiku |-> "",
                  subagent |-> "", thinking |-> ""]},
   hasMaxTokenSize : {TRUE}, maxTokenSize : {0, 64000},
   thinkingModel : {""}, systemPrompt : {"", "be brief"}]

\* values of this.claudePath: the default, and what setClaudePath('') leaves
InstancePaths == {"claude", ""}

\* ------------------------------------------------------------------------
\* Model fetch
\* ------------------------------------------------------------------------
\* a raw catalog entry: its id is a string, or is missing
Raw(id) == [idType |-> "string", id |-> id]
BadRaw == [idType |-> "missing", id |-> ""]
\* a catalog entry that is the JSON value null
NullRaw == [idType |-> "null", id |-> ""]

\* ModelInfoSchema: id is the one required field, object defaults to 'model'
SchemaAccepts(raw) == raw.idType = "string"

\* new ModelInfoImpl(raw), for a raw entry the schema accepts
ModelInfoImpl(raw) ==
  [id |-> raw.id, object |-> IF "object" \in DOMAIN raw THEN raw.object ELSE "model"]

toJSON(model) == [idType |-> "string", id |-> model.id, object |-> model.object]

AbsentFile == [kind |-> "absent", models |-> <<>>, mtime |-> 0]

\* ModelCache.isValid that rejects a snapshot of exactly the cache duration
IsValid_Strict(file, t) == file.kind # "absent" /\ t - file.mtime < Ttl

\* ModelCache.isValid: the file exists and its age is within the cache duration
IsValid(file, t) == file.kind # "absent" /\ t - file.mtime <= Ttl

\* ModelCache.load that builds a record from whatever the snapshot holds
Load_Unchecked(file, t) ==
  IF ~IsValid(file, t) THEN <<>>
  ELSE [i \in 1..Len(file.models) |-> ModelInfoImpl(file.models[i])]

\* ModelCache.load at time t
Load(file, t) ==
  IF ~IsValid(file, t) THEN <<>>
  ELSE IF file.kind = "corrupt" THEN <<>>
  ELSE IF \E i \in 1..Len(file.models) : ~SchemaAccepts(file.models[i]) THEN <<>>
  ELSE [i \in 1..Len(file.models) |-> ModelInfoImpl(file.models[i])]

\* ModelCache.save at time t: the file written on success
Save(models, t) == [kind |-> "json", models |-> [i \in 1..Len(models) |-> toJSON(models[i])], mtime |-> t]

\* the parsing loop of fetchFromApi: invalid entries are skipped
RECURSIVE ParseModels(_)
ParseModels(data) ==
  IF data = <<>> THEN <<>>
  ELSE IF SchemaAccepts(Head(data))
       THEN <<ModelInfoImpl(Head(data))>> \o ParseModels(Tail(data))
       ELSE ParseModels(Tail(data))

\* the warning of the per-entry catch block evaluates modelData.id, which raises
\* a TypeError when the entry is null; the TypeError leaves the loop
WarnThrows(raw) == raw.idType = "null"

\* fetchFromApi on the outcome of axios.get
FetchFromApi(resp) ==
  IF resp.kind = "ok"
  THEN IF \E i \in 1..Len(resp.data) :
            ~SchemaAccepts(resp.data[i]) /\ WarnThrows(resp.data[i])
       THEN [threw |-> TRUE, models |-> <<>>,
             error |-> "Error fetching models: Cannot read properties of null"]
       ELSE [threw |-> FALSE, models |-> ParseModels(resp.data), error |-> ""]
  ELSE IF resp.kind = "ok_nodata" THEN [threw |-> FALSE, models |-> <<>>, error |-> ""]
  ELSE IF resp.kind = "status_204"
  THEN [threw |-> TRUE, models |-> <<>>, error |-> "Error fetching models: API error: 204"]
  ELSE IF resp.kind = "error_response"
  THEN [threw |-> TRUE, models |-> <<>>, error |-> "API error: 401"]
  ELSE IF resp.kind = "no_response"
  THEN [threw |-> TRUE, models |-> <<>>, error |-> "Network error: No response received"]
  ELSE [threw |-> TRUE, models |-> <<>>, error |-> "Error fetching models: bad request"]

\* fetchModels without the cache check
FetchRoute_IgnoreCache(force, valid, key) ==
  IF key = "" THEN "nokey" ELSE "api"

\* fetchModels that trusts a valid cache even when forceRefresh is set
FetchRoute_CacheOnForce(force, valid, key) ==
  IF valid THEN "cache"
  ELSE IF key = "" THEN "nokey"
  ELSE "api"

\* fetchModels without the API key check
FetchRoute_NoKeyCheck(force, valid, key) ==
  IF ~force /\ valid THEN "cache" ELSE "api"

\* fetchModels that checks the API key before the cache
FetchRoute_KeyFirst(force, valid, key) ==
  IF key = "" THEN "nokey"
  ELSE IF ~force /\ valid THEN "cache"
  ELSE "api"

\* the branch fetchModels takes
FetchRoute(force, valid, key) ==
  IF ~force /\ valid THEN "cache"
  ELSE IF key = "" THEN "nokey"
  ELSE "api"

\* fetchModels that persists whatever the API returned
ShouldSave_Always(models) == TRUE

\* whether fetchModels persists what the API returned
ShouldSave(models) == Len(models) > 0

\* fetchModels that fails when cache.save reports a failure
AfterSave_Strict(saved) == IF saved THEN "returned" ELSE "threw"

\* what fetchModels does once cache.save has returned
AfterSave(saved) == "returned"

NoResponse == [kind |-> "none", data |-> <<>>]

NoCall == [validAtCheck |-> FALSE, route |-> "none", loadValid |-> FALSE,
           netCalls |-> 0, fetched |-> FALSE, netModels |-> <<>>, saved |-> "none",
           response |-> NoResponse, steps |-> <<>>]

\* fetchModels that sends the request before it looks at the cache
StepsAtCall_RequestFirst(force, route) ==
  (IF route = "api" THEN <<"request">> ELSE <<>>)
  \o (IF force THEN <<>> ELSE <<"isValid">>)

\* the steps fetchModels has taken when it first suspends: isValid is awaited
\* unless forceRefresh short-circuits it, then the request is sent
StepsAtCall(force, route) ==
  (IF force THEN <<>> ELSE <<"isValid">>)
  \o (IF route = "api" THEN <<"request">> ELSE <<>>)

\* fetchModels(forceRefresh) up to its first suspension after the validity check
FetchModels(force) ==
  /\ fetchPc \in {"idle", "done"}
  /\ LET valid == IsValid(cacheFile, now)
         route == FetchRoute(force, valid, apiKey)
     IN /\ fetchForce' = force
        /\ fetchCall' = [NoCall EXCEPT !.validAtCheck = valid, !.route = route,
                                       !.netCalls = IF route = "api" THEN 1 ELSE 0,
                                       !.steps = StepsAtCall(force, route)]
        /\ fetchPc' = IF route = "nokey" THEN "done" ELSE IF route = "cache" THEN "load" ELSE "api"
        /\ fetchOutcome' = IF route = "nokey" THEN "returned" ELSE "none"
        /\ fetchResult' = <<>>
        /\ fetchError' = ""
        /\ prevRefresh' =
             IF fetchPc = "done" /\ fetchForce /\ fetchCall.saved = "ok"
             THEN [some |-> TRUE, models |-> fetchResult]
             ELSE [some |-> FALSE, models |-> <<>>]
  /\ UNCHANGED <<now, apiKey, cacheFile>>
  /\ UNCHANGED <<auxVars, launchVars, extraVars>>

\* return this.cache.load()
CacheLoad ==
  /\ fetchPc = "load"
  /\ fetchPc' = "done"
  /\ fetchResult' = Load(cacheFile, now)
  /\ fetchOutcome' = "returned"
  /\ fetchCall' = [fetchCall EXCEPT !.loadValid = IsValid(cacheFile, now),
                                    !.steps = Append(@, "load")]
  /\ UNCHANGED <<now, apiKey, cacheFile, fetchForce, fetchError, prevRefresh>>
  /\ UNCHANGED <<auxVars, launchVars, extraVars>>

\* fetchModels that answers a failed request with the empty list
ApiRespond_Swallow(resp) ==
  /\ fetchPc = "api"
  /\ LET r == FetchFromApi(resp)
     IN /\ fetchCall' = [fetchCall EXCEPT !.fetched = ~r.threw, !.netModels = r.models,
                                          !.response = resp,
                                          !.steps = Append(@, "response")]
        /\ fetchResult' = r.models
        /\ fetchPc' = IF ShouldSave(r.models) THEN "save" ELSE "done"
        /\ fetchOutcome' = IF ShouldSave(r.models) THEN "none" ELSE "returned"
        /\ UNCHANGED fetchError
  /\ UNCHANGED <<now, apiKey, cacheFile, fetchForce, prevRefresh>>
  /\ UNCHANGED <<auxVars, launchVars, extraVars>>

\* await this.fetchFromApi() completes with the response resp
ApiRespond(resp) ==
  /\ fetchPc = "api"
  /\ LET r == FetchFromApi(resp)
     IN IF r.threw
        THEN /\ fetchPc' = "done"
             /\ fetchOutcome' = "threw"
             /\ fetchError' = r.error
             /\ fetchCall' = [fetchCall EXCEPT !.response = resp,
                                               !.steps = Append(@, "response")]
             /\ UNCHANGED fetchResult
        ELSE /\ fetchCall' = [fetchCall EXCEPT !.fetched = TRUE, !.netModels = r.models,
                                               !.response = resp,
                                               !.steps = Append(@, "response")]
             /\ fetchResult' = r.models
             /\ fetchPc' = IF ShouldSave(r.models) THEN "save" ELSE "done"
             /\ fetchOutcome' = IF ShouldSave(r.models) THEN "none" ELSE "returned"
             /\ UNCHANGED fetchError
  /\ UNCHANGED <<now, apiKey, cacheFile, fetchForce, prevRefresh>>
  /\ UNCHANGED <<auxVars, launchVars, extraVars>>

\* await this.cache.save(models) completes; ok tells whether the write succeeded
CacheSave(ok) ==
  /\ fetchPc = "save"
  /\ fetchPc' = "done"
  /\ cacheFile' = IF ok THEN Save(fetchResult, now) ELSE cacheFile
  /\ fetchCall' = [fetchCall EXCEPT !.saved = IF ok THEN "ok" ELSE "failed",
                                    !.steps = Append(@, "save")]
  /\ fetchOutcome' = AfterSave(ok)
  /\ UNCHANGED <<now, apiKey, fetchForce, fetchResult, fetchError, prevRefresh>>
  /\ UNCHANGED <<auxVars, launchVars, extraVars>>

\* the wall clock advances
Tick ==
  /\ now < MaxTime
  /\ now' = now + 1
  /\ UNCHANGED <<apiKey, cacheFile, fetchPc, fetchForce, fetchCall,
                 fetchOutcome, fetchResult, fetchError, prevRefresh>>
  /\ UNCHANGED <<auxVars, launchVars, extraVars>>

\* ---- inputs of the fetch ----
RECURSIVE SeqsUpTo(_, _)
SeqsUpTo(S, n) ==
  IF n = 0 THEN {<<>>}
  ELSE LET shorter == SeqsUpTo(S, n - 1)
       IN shorter \cup {Append(q, x) : q \in shorter, x \in S}

ApiResponses ==
  {[kind |-> "ok", data |-> d] : d \in SeqsUpTo({Raw("C"), BadRaw, NullRaw}, MaxRecords)}
  \cup {[kind |-> k, data |-> <<>>] :
          k \in {"ok_nodata", "status_204", "error_response", "no_response",
                 "request_error"}}

\* snapshot files found at start: none, unparseable, well-formed, with a bad entry
InitialCacheFiles ==
  {AbsentFile}
  \cup {[kind |-> "corrupt", models |-> <<>>, mtime |-> m] : m \in {0 - Ttl - 1, 0}}
  \cup {[kind |-> "json", models |-> ms, mtime |-> m] :
          ms \in {<<>>, <<toJSON(ModelInfoImpl(Raw("A"))), toJSON(ModelInfoImpl(Raw("B")))>>,
                  <<toJSON(ModelInfoImpl(Raw("A"))), BadRaw>>},
          m \in {0 - Ttl - 1, 0}}

InitFetch ==
  /\ now = 0
  /\ apiKey \in {"", "sk-key"}
  /\ cacheFile \in InitialCacheFiles
  /\ fetchPc = "idle"
  /\ fetchForce = FALSE
  /\ fetchCall = NoCall
  /\ fetchOutcome = "none"
  /\ fetchResult = <<>>
  /\ fetchError = ""
  /\ prevRefresh = [some |-> FALSE, models |-> <<>>]

\* the fetch subsystem at rest, for the specifications of the other subsystems
IdleFetch ==
  /\ now = 0
  /\ apiKey = ""
  /\ cacheFile = AbsentFile
  /\ fetchPc = "idle"
  /\ fetchForce = FALSE
  /\ fetchCall = NoCall
  /\ fetchOutcome = "none"
  /\ fetchResult = <<>>
  /\ fetchError = ""
  /\ prevRefresh = [some |-> FALSE, models |-> <<>>]

\* ------------------------------------------------------------------------
\* Model-id normalization, applied to one id
\* ------------------------------------------------------------------------
\* successive applications of normalizeModelId to one id
MaxApplications == 2

\* ids handed to normalizeModelId: every known prefix, near misses of a prefix
\* (no colon, upper case, prefix not at the start), with and without a name
ModelIds ==
  {p \o n : p \in {"", "hf:", "openai:", "anthropic:", "claude:", "google:",
                   "meta:", "hf", "HF:", "org/hf:", "metal"},
            n \in {"", "m", "zai-org/GLM-4.6"}}

NoTiers ==
  [default |-> "", opus |-> "", sonnet |-> "", haiku |-> "", subagent |-> "",
   thinking |-> ""]

\* the LaunchOptions of a launch with the given model argument and tier models
LaunchOf(model, tiers) ==
  [defined |-> TRUE, model |-> model, claudePath |-> "", env |-> EmptyMap,
   tierModels |-> tiers, hasMaxTokenSize |-> FALSE, maxTokenSize |-> 0,
   thinkingModel |-> "", systemPrompt |-> ""]

\* normalizeModelId is applied to the id, then to its own result
ApplyNormalize ==
  /\ Len(normOut) < MaxApplications
  /\ normOut' = Append(normOut,
                       normalizeModelId(IF normOut = <<>> THEN normX
                                        ELSE normOut[Len(normOut)]))
  /\ UNCHANGED <<normX, normEnv>>
  /\ UNCHANGED <<auxVars, launchVars, fetchVars, cacheOp, selVars>>

\* createClaudeEnvironment for a launch of the id as the model argument
ComposeFor ==
  /\ DOMAIN normEnv = {}
  /\ normEnv' = createClaudeEnvironment(LaunchOf(normX, NoTiers))
  /\ UNCHANGED <<normX, normOut>>
  /\ UNCHANGED <<auxVars, launchVars, fetchVars, cacheOp, selVars>>

InitNorm ==
  /\ normX \in ModelIds
  /\ normOut = <<>>
  /\ normEnv = EmptyMap

IdleNorm ==
  /\ normX = ""
  /\ normOut = <<>>
  /\ normEnv = EmptyMap

\* ------------------------------------------------------------------------
\* ModelCache operations called directly
\* ------------------------------------------------------------------------
NoInfo == [exists |-> FALSE, modelCount |-> 0, isValid |-> FALSE, hasError |-> FALSE]

NoOp == [op |-> "none", fault |-> FALSE, at |-> 0, existed |-> FALSE,
         raised |-> FALSE, bool |-> FALSE, models |-> <<>>, info |-> NoInfo,
         prev |-> "none", prevBool |-> FALSE, prevAt |-> 0]

\* the record of an operation that returned; fault tells whether the filesystem
\* failed it for another reason than a missing file
Returned(op, fault, b, ms, info) ==
  [op |-> op, fault |-> fault, at |-> now, existed |-> cacheFile.kind # "absent",
   raised |-> FALSE, bool |-> b, models |-> ms, info |-> info,
   prev |-> cacheOp.op, prevBool |-> cacheOp.bool, prevAt |-> cacheOp.at]

\* ModelCache.clear: fs.unlink, which fails on a missing file as on any other
\* error, then true; false on error
Clear(file, fault) ==
  IF fault \/ file.kind = "absent" THEN [ok |-> FALSE, file |-> file]
  ELSE [ok |-> TRUE, file |-> AbsentFile]

\* ModelCache.getInfo: fs.stat, load, isValid inside one try block
GetInfo(file, t, fault) ==
  IF fault \/ file.kind = "absent"
  THEN [exists |-> FALSE, modelCount |-> 0, isValid |-> FALSE, hasError |-> TRUE]
  ELSE [exists |-> TRUE, modelCount |-> Len(Load(file, t)),
        isValid |-> IsValid(file, t), hasError |-> FALSE]

\* await cache.isValid()
CallIsValid(fault) ==
  /\ cacheOp' = Returned("isValid", fault,
                         IF fault THEN FALSE ELSE IsValid(cacheFile, now),
                         <<>>, NoInfo)
  /\ UNCHANGED fetchVars
  /\ UNCHANGED <<auxVars, launchVars, normVars, selVars>>

\* await cache.load()
CallLoad(fault) ==
  /\ cacheOp' = Returned("load", fault, FALSE,
                         IF fault THEN <<>> ELSE Load(cacheFile, now), NoInfo)
  /\ UNCHANGED fetchVars
  /\ UNCHANGED <<auxVars, launchVars, normVars, selVars>>

\* await cache.save(models)
CallSave(models, fault) ==
  /\ cacheOp' = Returned("save", fault, ~fault, <<>>, NoInfo)
  /\ cacheFile' = IF fault THEN cacheFile ELSE Save(models, now)
  /\ UNCHANGED <<now, apiKey, fetchPc, fetchForce, fetchCall, fetchOutcome,
                 fetchResult, fetchError, prevRefresh>>
  /\ UNCHANGED <<auxVars, launchVars, normVars, selVars>>

\* await cache.clear()
CallClear(fault) ==
  /\ cacheOp' = Returned("clear", fault, Clear(cacheFile, fault).ok, <<>>, NoInfo)
  /\ cacheFile' = Clear(cacheFile, fault).file
  /\ UNCHANGED <<now, apiKey, fetchPc, fetchForce, fetchCall, fetchOutcome,
                 fetchResult, fetchError, prevRefresh>>
  /\ UNCHANGED <<auxVars, launchVars, normVars, selVars>>

\* await cache.getInfo()
CallGetInfo(fault) ==
  /\ cacheOp' = Returned("getInfo", fault, FALSE, <<>>,
                         GetInfo(cacheFile, now, fault))
  /\ UNCHANGED fetchVars
  /\ UNCHANGED <<auxVars, launchVars, normVars, selVars>>

\* record lists handed to save
SaveInputs == {<<ModelInfoImpl(Raw("A"))>>}

IdleCacheOp == cacheOp = NoOp

\* ------------------------------------------------------------------------
\* TierSelector
\* ------------------------------------------------------------------------
TIER_ORDER == <<"default", "opus", "sonnet", "haiku", "subagent", "thinking">>

\* s.includes(sub)
Includes(str, sub) ==
  \E i \in 1..(Len(str) - Len(sub) + 1) : SubSeq(str, i, i + Len(sub) - 1) = sub

\* models.findIndex(m => m.id === id), 0-based, -1 when there is none
FindIndex(models, id) ==
  IF \E i \in 1..Len(models) : models[i] = id
  THEN (CHOOSE i \in 1..Len(models) :
          models[i] = id /\ \A j \in 1..(i - 1) : models[j] # id) - 1
  ELSE 0 - 1

\* findDefaultModel(models), fallback left at its default '': the first model
\* of zai-org's GLM family, else the first model
findDefaultModel(models) ==
  LET zaiModels == SelectSeq(models, LAMBDA id : Includes(id, "zai-org") /\ Includes(id, "GLM"))
  IN IF Len(models) = 0 THEN ""
     ELSE IF zaiModels # <<>> THEN zaiModels[1]
     ELSE models[1]

\* the effect run after a render in which activeTier changed (and on mount):
\* the cursor moves to the tier's model when the list holds it
IndexAfterEffect(models, sel, tier, index) ==
  IF sel[tier] # "" /\ FindIndex(models, sel[tier]) >= 0
  THEN FindIndex(models, sel[tier])
  ELSE index

\* position of a tier in TIER_ORDER, 0-based
activeTierIndex == (CHOOSE i \in 1..Len(TIER_ORDER) : TIER_ORDER[i] = activeTier) - 1

SelectorOpen == selStatus = "open"

handleTab ==
  /\ SelectorOpen
  /\ LET next == TIER_ORDER[((activeTierIndex + 1) % Len(TIER_ORDER)) + 1]
     IN /\ activeTier' = next
        /\ selectedIndex' = IndexAfterEffect(selModels, selections, next, selectedIndex)
  /\ UNCHANGED <<selModels, selections, confirmMode, selStatus, selResult>>
  /\ UNCHANGED <<auxVars, launchVars, fetchVars, normVars, cacheOp>>

handleShiftTab ==
  /\ SelectorOpen
  /\ LET prev == TIER_ORDER[((activeTierIndex - 1 + Len(TIER_ORDER)) % Len(TIER_ORDER)) + 1]
     IN /\ activeTier' = prev
        /\ selectedIndex' = IndexAfterEffect(selModels, selections, prev, selectedIndex)
  /\ UNCHANGED <<selModels, selections, confirmMode, selStatus, selResult>>
  /\ UNCHANGED <<auxVars, launchVars, fetchVars, normVars, cacheOp>>

handleArrowUp ==
  /\ SelectorOpen
  /\ selectedIndex' = IF selectedIndex > 0 THEN selectedIndex - 1 ELSE 0
  /\ UNCHANGED <<selModels, activeTier, selections, confirmMode, selStatus, selResult>>
  /\ UNCHANGED <<auxVars, launchVars, fetchVars, normVars, cacheOp>>

handleArrowDown ==
  /\ SelectorOpen
  /\ selectedIndex' = IF selectedIndex < Len(selModels) - 1 THEN selectedIndex + 1
                      ELSE selectedIndex
  /\ UNCHANGED <<selModels, activeTier, selections, confirmMode, selStatus, selResult>>
  /\ UNCHANGED <<auxVars, launchVars, fetchVars, normVars, cacheOp>>

handleSpace ==
  /\ SelectorOpen
  /\ selections' = IF selectedIndex < Len(selModels)
                   THEN [selections EXCEPT ![activeTier] = selModels[selectedIndex + 1]]
                   ELSE selections
  /\ UNCHANGED <<selModels, activeTier, selectedIndex, confirmMode, selStatus, selResult>>
  /\ UNCHANGED <<auxVars, launchVars, fetchVars, normVars, cacheOp>>

\* Enter outside confirm mode
handleEnter ==
  /\ SelectorOpen /\ ~confirmMode
  /\ confirmMode' = TRUE
  /\ UNCHANGED <<selModels, activeTier, selectedIndex, selections, selStatus, selResult>>
  /\ UNCHANGED <<auxVars, launchVars, fetchVars, normVars, cacheOp>>

\* the TierSelection handleConfirm passes to onSelect
FinalSelection(sel, models) ==
  LET defaultModel == OrElse(sel.default, findDefaultModel(models))
  IN [default |-> OrElse(sel.default, defaultModel),
      opus |-> OrElse(sel.opus, defaultModel),
      sonnet |-> OrElse(sel.sonnet, defaultModel),
      haiku |-> OrElse(sel.haiku, defaultModel),
      subagent |-> OrElse(sel.subagent, defaultModel),
      thinking |-> OrElse(sel.thinking, defaultModel)]

\* Enter in confirm mode
handleConfirm ==
  /\ SelectorOpen /\ confirmMode
  /\ selResult' = FinalSelection(selections, selModels)
  /\ selStatus' = "selected"
  /\ UNCHANGED <<selModels, activeTier, selectedIndex, selections, confirmMode>>
  /\ UNCHANGED <<auxVars, launchVars, fetchVars, normVars, cacheOp>>

\* Escape
handleBack ==
  /\ SelectorOpen
  /\ IF confirmMode
     THEN confirmMode' = FALSE /\ UNCHANGED selStatus
     ELSE selStatus' = "cancelled" /\ UNCHANGED confirmMode
  /\ UNCHANGED <<selModels, activeTier, selectedIndex, selections, selResult>>
  /\ UNCHANGED <<auxVars, launchVars, fetchVars, normVars, cacheOp>>

\* ---- props of the dialog ----
SelectorModelLists == {<<>>, <<"m1", "zai-org/GLM-4.6">>}

InitialSelections ==
  {NoTiers, [NoTiers EXCEPT !.default = "m1"],
   [NoTiers EXCEPT !.thinking = "hf:think"]}

SelectorDefaultIds == {"", "m1"}

\* the state after the first render and its effect
InitSelector ==
  /\ selModels \in SelectorModelLists
  /\ \E initialSelection \in InitialSelections, defaultModelId \in SelectorDefaultIds :
       selections =
         [default |-> OrElse(initialSelection.default, OrElse(defaultModelId, "")),
          opus |-> OrElse(initialSelection.opus, ""),
          sonnet |-> OrElse(initialSelection.sonnet, ""),
          haiku |-> OrElse(initialSelection.haiku, ""),
          subagent |-> OrElse(initialSelection.subagent, ""),
          thinking |-> OrElse(initialSelection.thinking, "")]
  /\ activeTier = "default"
  /\ selectedIndex = IndexAfterEffect(selModels, selections, "default", 0)
  /\ confirmMode = FALSE
  /\ selStatus = "open"
  /\ selResult = NoTiers

IdleSelector ==
  /\ selModels = <<>>
  /\ selections = NoTiers
  /\ activeTier = "default"
  /\ selectedIndex = 0
  /\ confirmMode = FALSE
  /\ selStatus = "open"
  /\ selResult = NoTiers

IdleExtra == IdleNorm /\ IdleCacheOp /\ IdleSelector

InitAux ==
  /\ auxKind = "none"
  /\ auxPc = "idle"
  /\ auxPromise = "pending"
  /\ auxResult = NoResult
  /\ auxResolved = FALSE
  /\ auxTimer = "none"
  /\ auxClearCalls = 0
  /\ auxKills = <<>>
  /\ auxOutput = <<>>
  /\ auxEvents = <<>>
  /\ auxSettledBy = "none"

InitLaunch ==
  /\ launchPc = "idle"
  /\ launchPromise = "none"
  /\ launchResult = NoResult
  /\ launchOpts = NoResult
  /\ launchParentEnv = <<>>
  /\ launchComposed = <<>>
  /\ launchEnv = <<>>
  /\ launchEvents = <<>>
  /\ launchSettledBy = "none"

NextAux ==
  \/ \E k \in AuxKinds : AuxStart(k)
  \/ \E c \in Chunks : VersionOnData(c)
  \/ \E code \in CloseCodes : VersionOnClose(code)
  \/ VersionOnError
  \/ VersionOnTimeout
  \/ ProbeOnSpawn
  \/ ProbeOnError
  \/ ProbeOnTimeout
  \/ \E c \in Chunks : SpawnCommandOnData(c)
  \/ \E code \in CloseCodes : SpawnCommandOnClose(code)
  \/ SpawnCommandOnError
  \/ SpawnCommandOnTimeout
  \/ \E e \in {"spawn", "close"} : UnhandledEvent(e)

NextLaunch ==
  \/ \E o \in LaunchOptionsSet \cup {NullOptions}, p \in InstancePaths,
        pe \in ParentEnvs : launchClaudeCode(o, p, pe)
  \/ LaunchOnSpawn
  \/ \E msg \in {"spawn claude ENOENT"} : LaunchOnError(msg)

NextNorm ==
  \/ ApplyNormalize
  \/ ComposeFor

NextCache ==
  \/ \E fault \in BOOLEAN : CallIsValid(fault)
  \/ \E fault \in BOOLEAN : CallLoad(fault)
  \/ \E ms \in SaveInputs, fault \in BOOLEAN : CallSave(ms, fault)
  \/ \E fault \in BOOLEAN : CallClear(fault)
  \/ \E fault \in BOOLEAN : CallGetInfo(fault)
  \/ Tick

NextSelector ==
  \/ handleTab
  \/ handleShiftTab
  \/ handleArrowUp
  \/ handleArrowDown
  \/ handleSpace
  \/ handleEnter
  \/ handleConfirm
  \/ handleBack

NextFetch ==
  \/ \E force \in BOOLEAN : FetchModels(force)
  \/ CacheLoad
  \/ \E resp \in ApiResponses : ApiRespond(resp)
  \/ \E ok \in BOOLEAN : CacheSave(ok)
  \/ Tick

vars == <<auxVars, launchVars, fetchVars, extraVars>>

InitAuxSpec == InitAux /\ InitLaunch /\ IdleFetch /\ IdleExtra
SpecAux == InitAuxSpec /\ [][NextAux]_vars

\* the auxiliary commands under the scheduling of the event loop: a timer that
\* is armed expires and its callback runs
SpecAuxFair ==
  /\ InitAuxSpec /\ [][NextAux]_vars
  /\ WF_vars(VersionOnTimeout)
  /\ WF_vars(ProbeOnTimeout)
  /\ WF_vars(SpawnCommandOnTimeout)

InitLaunchSpec == InitAux /\ InitLaunch /\ IdleFetch /\ IdleExtra
SpecLaunch == InitLaunchSpec /\ [][NextLaunch]_vars

\* the first signal of a started child: child_process emits 'spawn' once the
\* child has started, and 'error' instead when it could not be started
LaunchFirstSignal ==
  /\ launchEvents = <<>>
  /\ (LaunchOnSpawn \/ \E msg \in {"spawn claude ENOENT"} : LaunchOnError(msg))

\* the main launch under the contract of child_process.spawn: a child whose
\* spawn call returned emits its first signal
SpecLaunchFair ==
  /\ InitLaunchSpec /\ [][NextLaunch]_vars
  /\ WF_vars(LaunchFirstSignal)

InitNormSpec == InitAux /\ InitLaunch /\ IdleFetch /\ InitNorm /\ IdleCacheOp /\ IdleSelector
SpecNorm == InitNormSpec /\ [][NextNorm]_vars

InitCacheSpec == InitAux /\ InitLaunch /\ InitFetch /\ IdleNorm /\ IdleCacheOp /\ IdleSelector
SpecCache == InitCacheSpec /\ [][NextCache]_vars

InitSelectorSpec == InitAux /\ InitLaunch /\ IdleFetch /\ IdleNorm /\ IdleCacheOp /\ InitSelector
SpecSelector == InitSelectorSpec /\ [][NextSelector]_vars

InitFetchSpec == InitAux /\ InitLaunch /\ InitFetch /\ IdleExtra
SpecFetch == InitFetchSpec /\ [][NextFetch]_vars
\* ------------------------------------------------------------------------
\* Properties
\* ------------------------------------------------------------------------
\* the first element of seq that is in S, "none" when there is none
FirstOf(seq, S) ==
  LET idx == {i \in 1..Len(seq) : seq[i] \in S}
  IN IF idx = {} THEN "none"
     ELSE seq[CHOOSE i \in idx : \A j \in idx : i <= j]

\* the events whose handlers resolve the promise of an auxiliary command
SettlingEvents(kind) ==
  IF kind = "probe" THEN {"spawn", "error", "timeout"}
  ELSE {"close", "error", "timeout"}

\* C1: whenever an auxiliary command ends through the child's close event or
\* through a spawn error, the pending timeout timer has been cancelled, exactly
\* once, by the time the promise is resolved: no timer is left pending
C1_TimerCancelledOnExit ==
  (auxPromise = "resolved" /\ auxSettledBy \in {"close", "error"})
    => (auxTimer = "cleared" /\ auxClearCalls = 1)

\* C2 (state part): the promise is resolved exactly when one of close/error/
\* timeout (spawn/error/timeout for the probe) has occurred, the first of them
\* determined the result, and a kill signal was sent only if the timeout won
C2_WinnerIsFirst ==
  auxPc = "running" =>
    LET w == FirstOf(auxEvents, SettlingEvents(auxKind))
    IN /\ (auxPromise = "resolved") <=> (w # "none")
       /\ auxSettledBy = w
       /\ Len(auxKills) <= 1
       /\ w # "timeout" => auxKills = <<>>
       /\ w = "timeout" =>
            CASE auxKind = "version" -> auxResult = NullResult
              [] auxKind = "probe" -> auxResult = BoolResult(FALSE)
              [] OTHER -> auxResult.code = "null" /\ ~auxResult.success
       /\ w = "error" =>
            CASE auxKind = "version" -> auxResult = NullResult
              [] auxKind = "probe" -> auxResult = BoolResult(FALSE)
              [] OTHER -> auxResult.code = "-1" /\ ~auxResult.success
       /\ w = "spawn" => auxResult = BoolResult(TRUE)
       /\ w = "close" =>
            CASE auxKind = "version" -> auxResult \in {NullResult, MatchVersion(auxOutput)}
              [] OTHER -> auxResult.code \in CloseCodes
                          /\ auxResult.stdout = Join(auxOutput)

C3_FirstSignalWins ==
  launchPc = "spawning" =>
    LET w == FirstOf(launchEvents, {"spawn", "error"})
    IN /\ (launchPromise = "resolved") <=> (w # "none")
       /\ launchPromise \in {"pending", "resolved"}
       /\ launchSettledBy = w
       /\ w = "spawn" => launchResult = LaunchOk("1234")
       /\ w = "error" => (launchResult.kind = "launch" /\ ~launchResult.success)

\* C3: if both the 'process started' and the 'spawn error' signal arrive for one
\* launch, in either order, the promise settles exactly once with the outcome of
\* the first, and the second neither raises nor changes the result
C3_LaunchSettlesOnce ==
  /\ []C3_FirstSignalWins
  /\ [][launchPromise = "resolved" =>
          /\ launchPromise' = "resolved"
          /\ launchResult' = launchResult]_vars

\* C3 witness: both signals have arrived, 'spawn' first
C3_Witness ==
  /\ launchEvents = <<"spawn", "error">>
  /\ launchPromise = "resolved"
  /\ launchResult.success

\* C4: launchClaudeCode never rejects: every failure, also one raised while
\* composing the environment or calling spawn, is a resolved {success: false}
C4_NeverRejects ==
  /\ launchPromise # "rejected"
  /\ launchPc = "returned" =>
       (launchPromise = "resolved" /\ launchResult.kind = "launch"
        /\ ~launchResult.success)

\* the snapshot's content can be loaded: it parses and every entry is valid
CacheLoadable(file) ==
  file.kind = "json" /\ \A i \in 1..Len(file.models) : SchemaAccepts(file.models[i])

\* the records of a loadable snapshot
CacheRecords(file) == [i \in 1..Len(file.models) |-> ModelInfoImpl(file.models[i])]

\* C5: with forceRefresh false and a valid cache, fetchModels makes no network
\* call and returns the records loaded from the cache
C5_CacheFirst ==
  (~fetchForce /\ fetchCall.validAtCheck) =>
    /\ fetchCall.netCalls = 0
    /\ fetchPc \in {"load", "done"}
    /\ fetchPc = "done" =>
         /\ fetchOutcome = "returned"
         /\ fetchResult = IF fetchCall.loadValid /\ CacheLoadable(cacheFile)
                          THEN CacheRecords(cacheFile) ELSE <<>>

\* C5 witness: a valid cache of [A,B] was returned though an API key is set
C5_Witness ==
  /\ fetchPc = "done" /\ ~fetchForce /\ fetchCall.validAtCheck
  /\ apiKey # ""
  /\ fetchResult = <<ModelInfoImpl(Raw("A")), ModelInfoImpl(Raw("B"))>>

\* C6 as stated: a forced fetch returns the records obtained from the network
\* and overwrites the cache snapshot with them
C6_Original ==
  (fetchPc = "done" /\ fetchForce /\ fetchCall.fetched) =>
    /\ fetchResult = fetchCall.netModels
    /\ fetchCall.saved = "ok"
    /\ cacheFile.kind = "json"
    /\ cacheFile.models = [i \in 1..Len(fetchResult) |-> toJSON(fetchResult[i])]

\* C6 amended: with an API key, a forced fetch ignores a valid cache and returns
\* the records obtained from the network; it writes the snapshot only when at
\* least one record was received, and when that write succeeds the snapshot holds
\* exactly those records, so that a directly following fetchModels(false) that
\* checks and loads within the TTL returns the same records
C6_ForceRefresh ==
  /\ (fetchForce /\ apiKey # "" /\ fetchPc # "idle") => fetchCall.route = "api"
  /\ (fetchPc = "done" /\ fetchForce /\ apiKey # "" /\ fetchOutcome = "returned") =>
       /\ fetchCall.netCalls = 1
       /\ fetchCall.fetched
       /\ fetchResult = fetchCall.netModels
       /\ (fetchCall.saved # "none") <=> (Len(fetchResult) > 0)
       /\ fetchCall.saved = "ok" =>
            /\ cacheFile.mtime <= now
            /\ Load(cacheFile, cacheFile.mtime) = fetchResult
  /\ (fetchPc = "done" /\ ~fetchForce /\ prevRefresh.some
      /\ fetchCall.validAtCheck /\ fetchCall.loadValid) =>
       fetchResult = prevRefresh.models

\* C6 witness: a fetchModels(false) that follows a forced, saved fetch within
\* the TTL has returned the records of that fetch
C6_Witness ==
  /\ fetchPc = "done" /\ ~fetchForce /\ prevRefresh.some
  /\ fetchCall.validAtCheck /\ fetchCall.loadValid
  /\ fetchResult = <<ModelInfoImpl(Raw("C"))>>

\* C7: a snapshot within its TTL whose content cannot be loaded does not block
\* the fresh fetch: fetchModels(false) with an API key calls the network
C7_BadCacheFallsThrough ==
  (fetchPc = "done" /\ ~fetchForce /\ apiKey # "" /\ fetchCall.validAtCheck
   /\ ~CacheLoadable(cacheFile)) =>
    (fetchCall.netCalls = 1 /\ fetchCall.route = "api")

\* C8: with an empty API key fetchModels never attempts a network call, for
\* either value of forceRefresh and every cache state
C8_NoKeyNoNetwork ==
  apiKey = "" =>
    /\ fetchCall.netCalls = 0
    /\ ~fetchCall.fetched
    /\ fetchPc \notin {"api", "save"}

\* C8 witness: a forced fetch over a valid cache has completed without API key
C8_Witness ==
  /\ apiKey = "" /\ fetchPc = "done" /\ fetchForce
  /\ fetchCall.validAtCheck /\ CacheLoadable(cacheFile)

\* C9 as stated: with an empty API key fetchModels returns the empty list,
\* whatever the state of the cache
C9_Original ==
  (apiKey = "" /\ fetchPc = "done") =>
    (fetchOutcome = "returned" /\ fetchResult = <<>>)

\* C9 amended: with an empty API key fetchModels returns the empty list when
\* forceRefresh is set or the cache is not valid; with forceRefresh false and a
\* valid cache it returns what the cache loads
C9_NoKeyResult ==
  (apiKey = "" /\ fetchPc = "done") =>
    /\ fetchOutcome = "returned"
    /\ fetchCall.route =
         (IF ~fetchForce /\ fetchCall.validAtCheck THEN "cache" ELSE "nokey")
    /\ fetchResult =
         IF ~fetchForce /\ fetchCall.validAtCheck
         THEN (IF fetchCall.loadValid /\ CacheLoadable(cacheFile)
               THEN CacheRecords(cacheFile) ELSE <<>>)
         ELSE <<>>

\* C9 witness: without API key a forced fetch over a valid cache of two records
\* has returned the empty list
C9_Witness ==
  /\ apiKey = "" /\ fetchPc = "done" /\ fetchForce
  /\ fetchCall.validAtCheck /\ CacheLoadable(cacheFile) /\ Len(cacheFile.models) = 2
  /\ fetchResult = <<>>

\* C10: when cache.save fails after a successful network fetch, fetchModels
\* still returns the fetched records; the save failure does not fail the fetch
C10_SaveBestEffort ==
  (fetchPc = "done" /\ fetchCall.saved = "failed") =>
    /\ fetchOutcome = "returned"
    /\ fetchCall.fetched
    /\ fetchResult = fetchCall.netModels
    /\ Len(fetchResult) > 0

\* C10 witness: a fetch whose save failed has returned the record it fetched
C10_Witness ==
  /\ fetchPc = "done" /\ fetchCall.saved = "failed"
  /\ fetchResult = <<ModelInfoImpl(Raw("C"))>>

\* the snapshot content that holds exactly the given records
SnapshotOf(models) == [i \in 1..Len(models) |-> toJSON(models[i])]

\* C11 as stated: after every network fetch that completes without error,
\* whatever the number of records, a new snapshot holding exactly those records
\* has been written (a failing write set aside)
C11_Original ==
  (fetchPc = "done" /\ fetchCall.fetched /\ fetchCall.saved # "failed") =>
    /\ fetchCall.saved = "ok"
    /\ cacheFile.kind = "json"
    /\ cacheFile.models = SnapshotOf(fetchCall.netModels)

\* C11 (state part): a completed network fetch has called cache.save exactly
\* when it returned at least one record, and a successful save left a snapshot
\* holding exactly the fetched records
C11_SavedIffRecords ==
  (fetchPc = "done" /\ fetchCall.fetched) =>
    /\ (fetchCall.saved # "none") <=> (Len(fetchCall.netModels) > 0)
    /\ fetchCall.saved = "ok" =>
         /\ cacheFile.kind = "json"
         /\ cacheFile.models = SnapshotOf(fetchCall.netModels)

\* C11 amended: after a network fetch that completes without error and returns
\* at least one record, fetchModels saves a snapshot holding exactly those
\* records; a fetch that returns no record ends the call without touching the
\* snapshot
C11_SaveWhenRecords ==
  /\ []C11_SavedIffRecords
  /\ [][(fetchPc = "api" /\ fetchPc' = "done") => cacheFile' = cacheFile]_vars

\* C11 witness: a fetch of one record has been saved and the snapshot holds it
C11_Witness ==
  /\ fetchPc = "done" /\ fetchCall.fetched /\ fetchCall.saved = "ok"
  /\ fetchCall.netModels = <<ModelInfoImpl(Raw("C"))>>
  /\ cacheFile.models = SnapshotOf(fetchCall.netModels)

\* the records of the well-formed entries of a raw catalog, in order
WellFormedRecords(data) ==
  LET good == SelectSeq(data, LAMBDA r : r.idType = "string")
  IN [i \in 1..Len(good) |-> [id |-> good[i].id, object |-> "model"]]

\* C12: for a 200 response with n raw entries of which k are malformed, the
\* fetch does not throw and yields exactly the n-k well-formed records
C12_PerRecordTolerance ==
  (fetchCall.response.kind = "ok") =>
    /\ fetchOutcome # "threw"
    /\ fetchCall.fetched
    /\ fetchCall.netModels = WellFormedRecords(fetchCall.response.data)

\* the outcomes of the request on which fetchFromApi throws
FailedResponses == {"status_204", "error_response", "no_response", "request_error"}

\* C13: when the network fetch fails, fetchModels fails with the error of
\* fetchFromApi; it returns neither an empty nor a cached list
C13_FailurePropagates ==
  (fetchPc = "done" /\ fetchCall.response.kind \in FailedResponses) =>
    /\ fetchOutcome = "threw"
    /\ fetchResult = <<>>
    /\ ~fetchCall.fetched
    /\ fetchCall.saved = "none"
    /\ fetchError =
         CASE fetchCall.response.kind = "error_response" -> "API error: 401"
           [] fetchCall.response.kind = "no_response" ->
                "Network error: No response received"
           [] fetchCall.response.kind = "request_error" ->
                "Error fetching models: bad request"
           [] OTHER -> "Error fetching models: API error: 204"

\* C13 witness: a forced fetch over a valid, loadable cache got no response
\* and has thrown
C13_Witness ==
  /\ fetchPc = "done" /\ fetchOutcome = "threw"
  /\ fetchCall.response.kind = "no_response"
  /\ fetchCall.validAtCheck /\ CacheLoadable(cacheFile)
  /\ Len(cacheFile.models) = 2

\* position of the first occurrence of x in seq, 0 when there is none
IndexOf(seq, x) ==
  LET idx == {i \in 1..Len(seq) : seq[i] = x}
  IN IF idx = {} THEN 0 ELSE CHOOSE i \in idx : \A j \in idx : i <= j

\* C14 (state part): in the steps of one call, the validity check (made unless
\* forceRefresh skips it) precedes the request, the request precedes its
\* response and the response precedes the cache write
C14_StepsOrdered ==
  LET st == fetchCall.steps
      I(x) == IndexOf(st, x)
  IN /\ I("request") > 0 =>
          /\ ~fetchForce => (I("isValid") > 0 /\ I("isValid") < I("request"))
          /\ fetchForce => I("isValid") = 0
     /\ I("response") > 0 => (I("request") > 0 /\ I("request") < I("response"))
     /\ I("save") > 0 => (I("response") > 0 /\ I("response") < I("save"))

\* C14: within one fetchModels call the cache validity check completes before
\* the network call starts and the network call completes before the cache
\* write; a cache write persists a response already received
C14_CallOrdering ==
  /\ []C14_StepsOrdered
  /\ [][cacheFile' # cacheFile =>
          /\ "response" \in Range(fetchCall.steps)
          /\ "save" \notin Range(fetchCall.steps)
          /\ cacheFile'.models = SnapshotOf(fetchCall.netModels)]_vars

\* C14 witness: a call has checked the cache, sent the request, received the
\* response and written the cache, in this order
C14_Witness ==
  fetchCall.steps = <<"isValid", "request", "response", "save">>

\* C15: when the timeout of an auxiliary command elapses before the child's
\* close or error event, the child is killed with SIGKILL and the result
\* reports failure (null version, false probe, null exit code)
C15_TimeoutKills ==
  (auxPromise = "resolved" /\ auxSettledBy = "timeout") =>
    /\ auxKills = <<"SIGKILL">>
    /\ CASE auxKind = "version" -> auxResult = NullResult
         [] auxKind = "probe" -> auxResult = BoolResult(FALSE)
         [] OTHER -> auxResult.code = "null" /\ ~auxResult.success

\* C16 (state part): a command settled by its timeout has the normal
\* unsuccessful outcome: null for the version query, false for the probe, a
\* failed result with a null exit code for spawnCommand
C16_TimeoutOutcome ==
  (auxPromise = "resolved" /\ auxSettledBy = "timeout") =>
    CASE auxKind = "version" -> auxResult = NullResult
      [] auxKind = "probe" -> auxResult = BoolResult(FALSE)
      [] OTHER -> auxResult.code = "null" /\ ~auxResult.success

\* C16: an auxiliary command never hangs: once started, its promise is
\* eventually resolved, by the timeout if the child emits neither close nor
\* error, and then with the normal unsuccessful outcome
C16_NeverHangs ==
  /\ []C16_TimeoutOutcome
  /\ (auxPc = "running") ~> (auxPromise = "resolved")
  /\ (auxPc = "running" /\ auxEvents = <<>>) ~>
       (auxPromise = "resolved"
        /\ (Range(auxEvents) \cap {"close", "error"} = {} =>
              "timeout" \in Range(auxEvents)))

\* C16 witness: the installation probe, whose child emitted nothing, was
\* resolved with false by the timeout
C16_Witness ==
  /\ auxKind = "probe" /\ auxEvents = <<"timeout">>
  /\ auxPromise = "resolved" /\ auxSettledBy = "timeout"
  /\ auxResult = BoolResult(FALSE)

\* the tier-model variables and the tier each one is resolved from
TierKey ==
  [ANTHROPIC_DEFAULT_MODEL |-> "default",
   ANTHROPIC_DEFAULT_OPUS_MODEL |-> "opus",
   ANTHROPIC_DEFAULT_SONNET_MODEL |-> "sonnet",
   ANTHROPIC_DEFAULT_HAIKU_MODEL |-> "haiku",
   CLAUDE_CODE_SUBAGENT_MODEL |-> "subagent"]

TierVars == DOMAIN TierKey

\* a launch whose environment was composed
Composed == launchPc # "idle" /\ launchOpts.defined

\* the default tier or the legacy model argument names a model
DefaultChosen == launchOpts.tierModels.default # "" \/ launchOpts.model # ""

\* C17 as stated: in every composed environment each tier-model variable is
\* present and non-empty
C17_Original ==
  Composed =>
    \A v \in TierVars : v \in DOMAIN launchComposed /\ launchComposed[v] # ""

\* C17 amended: in every composed environment each tier-model variable is
\* present, and it is non-empty exactly when its own tier entry, the default
\* tier entry or the legacy model argument is non-empty
C17_TierVarsPresent ==
  Composed =>
    \A v \in TierVars :
      /\ v \in DOMAIN launchComposed
      /\ (launchComposed[v] # "") <=>
           (launchOpts.tierModels[TierKey[v]] # "" \/ DefaultChosen)

\* C17 witness: a launch with an empty selection and an empty model argument was
\* composed, with every tier-model variable present and empty
C17_Witness ==
  /\ Composed /\ ~DefaultChosen
  /\ \A v \in TierVars : launchOpts.tierModels[TierKey[v]] = ""
  /\ \A v \in TierVars : v \in DOMAIN launchComposed /\ launchComposed[v] = ""

\* C18 as stated: once any tier entry or the legacy model argument names a
\* model, every tier-model variable is non-empty
C18_Original ==
  (Composed /\ (launchOpts.model # ""
                \/ \E v \in TierVars : launchOpts.tierModels[TierKey[v]] # "")) =>
    \A v \in TierVars : launchComposed[v] # ""

\* C18 amended: once the default tier entry or the legacy model argument names
\* a model, every tier-model variable is non-empty
C18_DefaultFillsAll ==
  (Composed /\ DefaultChosen) =>
    \A v \in TierVars : launchComposed[v] # ""

\* C18 witness: only the legacy model argument names a model and all five
\* variables carry its normalized id
C18_Witness ==
  /\ Composed /\ launchOpts.model = "m1"
  /\ \A t \in DOMAIN launchOpts.tierModels : launchOpts.tierModels[t] = ""
  /\ \A v \in TierVars : launchComposed[v] = "hf:m1"

\* normalize as the specification states it: prefix hf: unless the id starts
\* with a known provider prefix
SpecNormalize(id) ==
  IF \E q \in {"hf:", "openai:", "anthropic:", "claude:", "google:", "meta:"} :
       Len(id) >= Len(q) /\ SubSeq(id, 1, Len(q)) = q
  THEN id ELSE "hf:" \o id

\* defaultModel of the specification: normalize(selection.default or the legacy
\* model argument), empty when neither is given
SpecDefaultModel ==
  IF launchOpts.tierModels.default # "" THEN SpecNormalize(launchOpts.tierModels.default)
  ELSE IF launchOpts.model # "" THEN SpecNormalize(launchOpts.model)
  ELSE ""

NoThinkingGiven ==
  /\ Composed
  /\ launchOpts.tierModels.thinking = ""
  /\ launchOpts.thinkingModel = ""

\* C20 as stated: when no thinking model is given, the environment handed to
\* the child holds no ANTHROPIC_THINKING_MODEL (the caller's overrides, which are
\* explicit, set aside)
C20_Original ==
  (NoThinkingGiven /\ "ANTHROPIC_THINKING_MODEL" \notin DOMAIN launchOpts.env) =>
    "ANTHROPIC_THINKING_MODEL" \notin DOMAIN launchEnv

\* C20 amended: when no thinking model is given, the launcher composes no
\* ANTHROPIC_THINKING_MODEL; the environment handed to the child holds the
\* variable only when the parent's environment or the caller's overrides hold
\* it, with their value
C20_NoThinkingAdded ==
  NoThinkingGiven =>
    /\ "ANTHROPIC_THINKING_MODEL" \notin DOMAIN launchComposed
    /\ ("ANTHROPIC_THINKING_MODEL" \in DOMAIN launchEnv) <=>
         ("ANTHROPIC_THINKING_MODEL" \in
            (DOMAIN launchParentEnv) \cup (DOMAIN launchOpts.env))
    /\ ("ANTHROPIC_THINKING_MODEL" \in DOMAIN launchEnv
        /\ "ANTHROPIC_THINKING_MODEL" \notin DOMAIN launchOpts.env) =>
         launchEnv.ANTHROPIC_THINKING_MODEL = launchParentEnv.ANTHROPIC_THINKING_MODEL

\* C20 witness: a launch without a thinking model from a parent environment
\* without the variable handed the child an environment without it
C20_Witness ==
  /\ NoThinkingGiven /\ launchPc = "spawning"
  /\ "ANTHROPIC_THINKING_MODEL" \notin DOMAIN launchParentEnv
  /\ "ANTHROPIC_THINKING_MODEL" \notin DOMAIN launchEnv
  /\ launchEnv.ANTHROPIC_DEFAULT_MODEL = "hf:m1"

\* C21: every key of the caller's env overrides maps, in the environment handed
\* to the child, to the caller's value, whatever the parent's environment or
\* the launcher composed for that key
C21_OverridesWin ==
  Composed =>
    \A k \in DOMAIN launchOpts.env :
      k \in DOMAIN launchEnv /\ launchEnv[k] = launchOpts.env[k]

\* C21 witness: the caller overrode the endpoint URL, which both the parent's
\* environment and the launcher set to other values, and the child got the
\* caller's value
C21_Witness ==
  /\ Composed /\ launchPc = "spawning"
  /\ "ANTHROPIC_BASE_URL" \in DOMAIN launchOpts.env
  /\ "ANTHROPIC_BASE_URL" \in DOMAIN launchParentEnv
  /\ launchParentEnv.ANTHROPIC_BASE_URL # launchOpts.env.ANTHROPIC_BASE_URL
  /\ launchComposed.ANTHROPIC_BASE_URL # launchOpts.env.ANTHROPIC_BASE_URL
  /\ launchEnv.ANTHROPIC_BASE_URL = "http://localhost:8080"

\* C27 as stated: the environment the launcher hands to the child always holds
\* ANTHROPIC_AUTH_TOKEN, also when the caller supplies no env overrides
C27_AuthTokenSet ==
  Composed => "ANTHROPIC_AUTH_TOKEN" \in DOMAIN launchEnv

\* C28 as stated: a fetchModels(false) whose snapshot passed the validity check
\* at the start of the call and crossed the cache duration before its records
\* were loaded does not return the empty list without a network request (the
\* snapshot is well-formed and holds records, an API key is configured)
C28_ConsistentValidity ==
  (/\ fetchPc = "done" /\ ~fetchForce
   /\ fetchCall.route = "cache"
   /\ CacheLoadable(cacheFile) /\ Len(cacheFile.models) > 0 /\ apiKey # ""
   /\ fetchCall.validAtCheck /\ ~fetchCall.loadValid) =>
    ~(fetchOutcome = "returned" /\ fetchResult = <<>> /\ fetchCall.netCalls = 0)

\* C30: every launch whose spawn call returned eventually leaves the spawning
\* state: its promise is resolved by the 'spawn' or by the 'error' handler
C30_LeavesSpawning ==
  (launchPc = "spawning") ~>
    (launchPromise = "resolved" /\ launchSettledBy \in {"spawn", "error"})

\* C30 witness: a launch that was spawning has been resolved as failed by the
\* 'error' signal of its child
C30_Witness ==
  /\ launchPc = "spawning" /\ launchEvents = <<"error">>
  /\ launchPromise = "resolved" /\ launchSettledBy = "error"
  /\ ~launchResult.success

\* C22: normalizing the result of a normalization changes nothing: every
\* further application of normalizeModelId yields what the first one yielded
C22_Idempotent ==
  \A i \in 2..Len(normOut) : normOut[i] = normOut[1]

\* C22 witness: an id without a provider prefix was normalized twice and both
\* results are the id with hf: in front
C22_Witness ==
  /\ normX = "zai-org/GLM-4.6"
  /\ normOut = <<"hf:zai-org/GLM-4.6", "hf:zai-org/GLM-4.6">>

\* the id starts with one of the six provider prefixes of the specification
HasProviderPrefix(id) ==
  \E q \in {"hf:", "openai:", "anthropic:", "claude:", "google:", "meta:"} :
    Len(id) >= Len(q) /\ SubSeq(id, 1, Len(q)) = q

SavedInRun == cacheFile.kind = "json" /\ cacheFile.models = SnapshotOf(<<ModelInfoImpl(Raw("A"))>>)

\* C24: isValid returns true exactly when the snapshot file exists and its age,
\* counted from the save that wrote it, is at most the cache duration (a stat
\* that fails on an existing file set aside); it is true one tick before the
\* duration has passed and false one tick after
C24_ValidWithinTtl ==
  (cacheOp.op = "isValid" /\ ~cacheOp.fault) =>
    /\ cacheOp.bool =
         (cacheFile.kind # "absent" /\ cacheOp.at - cacheFile.mtime <= Ttl)
    /\ (cacheFile.kind # "absent" /\ cacheOp.at = cacheFile.mtime + Ttl - 1) =>
         cacheOp.bool
    /\ (cacheFile.kind # "absent" /\ cacheOp.at = cacheFile.mtime + Ttl + 1) =>
         ~cacheOp.bool

\* C24 witness: a snapshot saved at T was found valid at T + Ttl - 1 and, by the
\* next call, invalid at T + Ttl + 1
C24_Witness ==
  /\ SavedInRun
  /\ cacheOp.op = "isValid" /\ ~cacheOp.fault
  /\ cacheOp.at = cacheFile.mtime + Ttl + 1 /\ ~cacheOp.bool
  /\ cacheOp.prev = "isValid" /\ cacheOp.prevAt = cacheFile.mtime + Ttl - 1
  /\ cacheOp.prevBool

\* the operation met a failure: the filesystem failed it, or the file is missing
OpFailed == cacheOp.fault \/ ~cacheOp.existed

C26_ClearIdempotent ==
  (cacheOp.op = "clear" /\ ~cacheOp.fault) =>
    /\ ~cacheOp.existed => cacheOp.bool
    /\ (cacheOp.prev = "clear" /\ cacheOp.prevBool) => cacheOp.bool

\* C29 as stated: when the selection is confirmed with no thinking model
\* chosen, the TierSelection passed to onSelect leaves thinking empty and the
\* environment composed for a launch of that selection has no
\* ANTHROPIC_THINKING_MODEL
C29_ThinkingStaysEmpty ==
  (selStatus = "selected" /\ selections.thinking = "") =>
    /\ selResult.thinking = ""
    /\ "ANTHROPIC_THINKING_MODEL" \notin
         DOMAIN createClaudeEnvironment(LaunchOf("", selResult))
====
